---- MODULE Spec2Model ----
\* Model of the ZeroMQ sender of pushkind-common (src/src/zmq.rs): a bounded
\* tokio mpsc channel between producer handles (ZmqSender clones) and one
\* worker thread that owns the socket. The crate's sequential helpers (the
\* option presets, the page list of src/src/pagination.rs and the redirect
\* middleware of src/src/middleware.rs) share no state with the sender and
\* are exercised by a specification of their own, LibSpec.
EXTENDS Integers, Sequences, FiniteSets, TLC

\* ---------------------------------------------------------------- bounds
\* Largest queue_capacity an options value is started with.
MaxCapacity == 2
\* Total number of envelopes the producers hand to the channel in one run
\* (calls that are rejected are not counted).
MaxEnvelopes == 4
\* Largest unsigned integer handed to send_json in the single-producer
\* specification JsonSpec.
MaxJsonUint == 11

\* Largest total_pages and current_page handed to Paginated::new, besides
\* the values next to usize::MAX.
MaxTotalPages == 9
MaxCurrentPage == 12
\* Largest left_edge and right_edge, and largest left_current and
\* right_current, handed to get_pages directly.
MaxEdge == 2
MaxAround == 4

\* ------------------------------------------------------ program constants
DEFAULT_QUEUE_CAPACITY == 10000
DEFAULT_SNDHWM == 100000
PUB_WARMUP_MS == 300
PUSH_WARMUP_MS == 50
BACKOFF_MS == 50
\* Width of usize in bits: the narrowest Rust targets have 16; the arithmetic
\* of get_pages overflows the same way at every width.
UsizeBits == 16
USIZE_MAX == 2 ^ UsizeBits - 1

\* Threads/tasks that may hold a ZmqSender handle. "p1" is the caller of start.
Producers == {"p1", "p2"}

NoEnv == [kind |-> "None", frames |-> << >>, src |-> "none", pn |-> 0, seq |-> 0]

\* ------------------------------------------------------------- payloads
\* Byte strings handed to send_bytes / try_send_bytes, and topics. The byte
\* string is the ASCII text "7", which is also what send_json produces for the
\* integer 7, so both entry points can enqueue the same Envelope::Bytes.
ByteStrings == { <<55>> }
Topics == { <<97>> }
\* Values handed to send_json / send_topic_json: an unsigned integer, and a
\* value whose Serialize implementation fails (serde_json::Error).
JsonValues == { [t |-> "uint", v |-> 7], [t |-> "unserializable", v |-> 0] }

\* Values handed to send_json in JsonSpec: unsigned integers of one and two
\* digits, and the floating-point value +infinity (f64::INFINITY).
RoundTripValues ==
    { [t |-> "uint", v |-> n] : n \in 0..MaxJsonUint } \cup { [t |-> "float_inf", v |-> 0] }

\* serde_json::to_vec(v): Ok(bytes) or Err.
SerializeOkAlways(v) == TRUE
SerializeOk(v) == v.t # "unserializable"

RECURSIVE Digits(_)
Digits(n) == IF n < 10 THEN << 48 + n >> ELSE Digits(n \div 10) \o << 48 + (n % 10) >>

\* The bytes serde_json::to_vec writes: the decimal digits of an unsigned
\* integer; the text null for a non-finite float (serde_json writes NaN and
\* the infinities as null and returns Ok).
to_vecLengthPrefixed(v) ==
    IF v.t = "uint" THEN << Len(Digits(v.v)) >> \o Digits(v.v)
    ELSE IF v.t = "float_inf" THEN << 4, 110, 117, 108, 108 >>
    ELSE << >>
to_vec(v) ==
    IF v.t = "uint" THEN Digits(v.v)
    ELSE IF v.t = "float_inf" THEN << 110, 117, 108, 108 >>
    ELSE << >>

\* Envelope::Bytes(b) and Envelope::Multipart(frames). The fields src, pn and
\* seq are history tags, filled in when the channel accepts the envelope: the
\* producer, its position among that producer's accepted envelopes, and its
\* position among all accepted envelopes.
EnvBytes(b) == [kind |-> "Bytes", frames |-> << b >>, src |-> "none", pn |-> 0, seq |-> 0]
EnvMultipartPayloadFirst(fs) ==
    [kind |-> "Multipart", frames |-> << fs[2], fs[1] >>, src |-> "none", pn |-> 0, seq |-> 0]
EnvMultipart(fs) == [kind |-> "Multipart", frames |-> fs, src |-> "none", pn |-> 0, seq |-> 0]

\* ------------------------------------------------------------- options
\* Endpoints handed to the presets.
Endpoints == { "tcp://127.0.0.1:5556", "ipc:///tmp/events" }

pub_default(endpoint) ==
    [endpoint |-> endpoint, kind |-> "Pub", queue_capacity |-> DEFAULT_QUEUE_CAPACITY, sndhwm |-> DEFAULT_SNDHWM,
     linger_ms |-> 0, immediate |-> TRUE, warmup_ms |-> PUB_WARMUP_MS]

push_defaultWithPubWarmup(endpoint) ==
    [endpoint |-> endpoint, kind |-> "Push", queue_capacity |-> DEFAULT_QUEUE_CAPACITY,
     sndhwm |-> DEFAULT_SNDHWM, linger_ms |-> 0, immediate |-> TRUE, warmup_ms |-> PUB_WARMUP_MS]
push_default(endpoint) ==
    [endpoint |-> endpoint, kind |-> "Push", queue_capacity |-> DEFAULT_QUEUE_CAPACITY, sndhwm |-> DEFAULT_SNDHWM,
     linger_ms |-> 0, immediate |-> TRUE, warmup_ms |-> PUSH_WARMUP_MS]

\* The endpoint the sender is started with.
StartEndpoint == "tcp://127.0.0.1:5556"

\* The options start is called with: a preset with its queue_capacity set to
\* a small positive value (mpsc::channel panics on 0), and one without warm-up.
OptionSet ==
    { [o EXCEPT !.queue_capacity = c] :
        o \in {pub_default(StartEndpoint), push_default(StartEndpoint)}, c \in 1..MaxCapacity }
    \cup { [pub_default(StartEndpoint) EXCEPT !.queue_capacity = 1, !.warmup_ms = 0] }

VARIABLES
    opts,        \* the ZmqSenderOptions start was called with
    startResult, \* "none" | "Ok" | "SocketCreate" | "Connect"
    sock,        \* "none" | "open" | "closed": the zmq socket
    workers,     \* number of threads spawned by start
    wpc,         \* worker position
    cur,         \* the envelope the worker holds (env of the loop body)
    queue,       \* the channel's buffer
    permits,     \* free slots of the channel (its semaphore's permits)
    waiters,     \* producers suspended in send().await, oldest first
    rxClosed,    \* the Receiver has been dropped
    holders,     \* producers that hold a live ZmqSender
    pc,          \* producer position: "idle" | "blocked" | "granted"
    pending,     \* the envelope a suspended send().await carries
    ret,         \* the latest result an enqueue call returned, and to whom
    accN,        \* history: number of envelopes the channel has accepted
    accFrom,     \* history: the same, per producer
    sentN,       \* history: number of socket send calls made
    sentFrom,    \* history: the same, per producer of the envelope
    inflight,    \* the socket send call in progress: its caller and envelope
    failedLast,  \* history: the latest send call returned Err and no send
                 \* call has been entered since
    sleeping,    \* the duration in ms of the thread::sleep the worker is in,
                 \* 0 when it is in none
    optErrors,   \* the socket options whose set call returned Err in start
    built,       \* the ZmqSenderOptions a preset returned last, with its argument
    paginated,   \* the Paginated value constructed last, with its arguments
    exchange,    \* the request the middleware served last, with its response
    listed       \* the page list get_pages returned last, with its arguments

\* The state of the sequential helpers, and the state of the sender.
libVars == << built, paginated, exchange, listed >>
zmqVars == << opts, startResult, sock, workers, wpc, cur, queue, permits, waiters,
              rxClosed, holders, pc, pending, ret, accN, accFrom, sentN, sentFrom, inflight, failedLast,
              sleeping, optErrors >>

vars == << zmqVars, libVars >>

NoCall == [by |-> "none", env |-> NoEnv]

\* No preset has been called, no Paginated constructed, no request served.
\* (A helper that is about to be called has "call" in place of "none", with
\* the arguments of the call.)
NoOptions == [via |-> "none", arg |-> "", value |-> pub_default("")]
NoPaginated ==
    [total_pages |-> 0, current_page |-> 0, checked |-> FALSE,
     outcome |-> "none", pages |-> << >>, page |-> 0]
NoListed ==
    [total_pages |-> 0, current_page |-> 0, left_edge |-> 0, left_current |-> 0,
     right_current |-> 0, right_edge |-> 0, outcome |-> "none", pages |-> << >>]
NoExchange ==
    [config_present |-> FALSE, auth_service_url |-> << >>, host |-> << >>, uri |-> << >>,
     inner |-> "none", inner_status |-> 0,
     outcome |-> "none", forwarded |-> FALSE, status |-> 0, location |-> << >>]

\* What a call returned to producer p, and whether the call was suspended.
Res(p, r, w) == [by |-> p, res |-> r, waited |-> w]

ZmqInit ==
    /\ opts = pub_default(StartEndpoint)
    /\ startResult = "none"
    /\ sock = "none"
    /\ workers = 0
    /\ wpc = "none"
    /\ cur = NoEnv
    /\ queue = << >>
    /\ permits = 0
    /\ waiters = << >>
    /\ rxClosed = FALSE
    /\ holders = {}
    /\ pc = [p \in Producers |-> "idle"]
    /\ pending = [p \in Producers |-> NoEnv]
    /\ ret = Res("none", "none", FALSE)
    /\ accN = 0
    /\ accFrom = [p \in Producers |-> 0]
    /\ sentN = 0
    /\ sentFrom = [p \in Producers |-> 0]
    /\ inflight = NoCall
    /\ failedLast = FALSE
    /\ sleeping = 0
    /\ optErrors = {}

Init ==
    /\ ZmqInit
    /\ built = NoOptions
    /\ paginated = NoPaginated
    /\ exchange = NoExchange
    /\ listed = NoListed

\* ------------------------------------------------------ channel helpers
\* The buffer of mpsc::channel: values are appended at the back and
\* received from the front.
ChanPushFront(q, e) == << e >> \o q
ChanPush(q, e) == Append(q, e)
ChanFrontNewest(q) == q[Len(q)]
ChanFront(q) == Head(q)
ChanRest(q) == Tail(q)

\* try_send's and send's test for a free slot.
HasPermitOffByOne(n) == n >= 0
HasPermit(n) == n > 0

\* A slot is freed by a receive: it goes to the oldest suspended sender if
\* there is one, to the free permits otherwise.
GrantToNobody(ws) == {}
GrantToAll(ws) == { ws[i] : i \in DOMAIN ws }
GrantTo(ws) == IF ws = << >> THEN {} ELSE { Head(ws) }

\* ------------------------------------------------------------- start
\* Threads one successful start spawns (the single thread::spawn).
SpawnedTwice == 1 + 1
Spawned == 1

\* The options start sets on the socket before it connects.
SocketOptions == { "sndhwm", "linger", "immediate" }

StartSpawnsBeforeConnect(o, createOk, connectOk, failed) ==
    /\ startResult = "none"
    /\ opts' = o
    /\ IF ~createOk
       THEN /\ startResult' = "SocketCreate"
            /\ rxClosed' = TRUE
            /\ UNCHANGED << sock, workers, wpc, permits, holders, optErrors >>
       ELSE /\ startResult' = (IF connectOk THEN "Ok" ELSE "Connect")
            /\ optErrors' = failed
            /\ sock' = "open"
            /\ permits' = o.queue_capacity
            /\ workers' = workers + Spawned
            /\ wpc' = "spawned"
            /\ holders' = (IF connectOk THEN {"p1"} ELSE {})
            /\ UNCHANGED rxClosed
    /\ UNCHANGED << libVars, sleeping, cur, queue, waiters, pc, pending, ret, accN, accFrom, sentN, sentFrom, inflight, failedLast >>

StartFailsOnOptionError(o, createOk, connectOk, failed) ==
    /\ startResult = "none"
    /\ opts' = o
    /\ IF ~createOk
       THEN /\ startResult' = "SocketCreate"
            /\ rxClosed' = TRUE
            /\ UNCHANGED << sock, workers, wpc, permits, holders, optErrors >>
       ELSE IF failed # {} \/ ~connectOk
       THEN /\ startResult' = "Connect"
            /\ optErrors' = failed
            /\ sock' = "closed"
            /\ rxClosed' = TRUE
            /\ UNCHANGED << workers, wpc, permits, holders >>
       ELSE /\ startResult' = "Ok"
            /\ optErrors' = failed
            /\ sock' = "open"
            /\ permits' = o.queue_capacity
            /\ workers' = workers + Spawned
            /\ wpc' = "spawned"
            /\ holders' = {"p1"}
            /\ UNCHANGED rxClosed
    /\ UNCHANGED << libVars, sleeping, cur, queue, waiters, pc, pending, ret, accN, accFrom, sentN, sentFrom, inflight, failedLast >>

\* start(opts): createOk and connectOk are the outcomes of ctx.socket and
\* sock.connect, failed the options whose set call returns Err (the results
\* of set_sndhwm, set_linger and set_immediate are discarded with .ok()).
Start(o, createOk, connectOk, failed) ==
    /\ startResult = "none"
    /\ opts' = o
    /\ IF ~createOk
       THEN \* ctx.socket(ty) failed: tx and rx are dropped on return
            /\ startResult' = "SocketCreate"
            /\ rxClosed' = TRUE
            /\ UNCHANGED << sock, workers, wpc, permits, holders, optErrors >>
       ELSE IF ~connectOk
       THEN \* sock.connect failed: sock, tx and rx are dropped on return
            /\ startResult' = "Connect"
            /\ optErrors' = failed
            /\ sock' = "closed"
            /\ rxClosed' = TRUE
            /\ UNCHANGED << workers, wpc, permits, holders >>
       ELSE /\ startResult' = "Ok"
            /\ optErrors' = failed
            /\ sock' = "open"
            /\ permits' = o.queue_capacity
            /\ workers' = workers + Spawned
            /\ wpc' = "spawned"
            /\ holders' = {"p1"}
            /\ UNCHANGED rxClosed
    /\ UNCHANGED << libVars, sleeping, cur, queue, waiters, pc, pending, ret, accN, accFrom, sentN, sentFrom, inflight, failedLast >>

\* ------------------------------------------------------------- worker
WorkerBeginSkipsWarmup ==
    /\ wpc = "spawned"
    /\ wpc' = "recv"
    /\ sleeping' = 0
    /\ UNCHANGED << libVars, optErrors, opts, startResult, sock, workers, cur, queue, permits, waiters,
                    rxClosed, holders, pc, pending, ret, accN, accFrom, sentN, sentFrom, inflight, failedLast >>

\* The thread starts: it sleeps warmup_ms if that is positive, else it enters
\* the loop.
WorkerBegin ==
    /\ wpc = "spawned"
    /\ wpc' = IF opts.warmup_ms > 0 THEN "warmup" ELSE "recv"
    /\ sleeping' = opts.warmup_ms
    /\ UNCHANGED << libVars, optErrors, opts, startResult, sock, workers, cur, queue, permits, waiters,
                    rxClosed, holders, pc, pending, ret, accN, accFrom, sentN, sentFrom, inflight, failedLast >>

WarmupDone ==
    /\ wpc = "warmup"
    /\ wpc' = "recv"
    /\ sleeping' = 0
    /\ UNCHANGED << libVars, optErrors, opts, startResult, sock, workers, cur, queue, permits, waiters,
                    rxClosed, holders, pc, pending, ret, accN, accFrom, sentN, sentFrom, inflight, failedLast >>

\* rx.blocking_recv() returns Some(env)
WorkerRecv ==
    /\ wpc = "recv"
    /\ queue # << >>
    /\ cur' = ChanFront(queue)
    /\ queue' = ChanRest(queue)
    /\ IF waiters = << >>
       THEN /\ permits' = permits + 1
            /\ UNCHANGED << waiters, pc >>
       ELSE /\ waiters' = Tail(waiters)
            /\ pc' = [p \in Producers |-> IF p \in GrantTo(waiters) THEN "granted" ELSE pc[p]]
            /\ UNCHANGED permits
    /\ wpc' = "dequeued"
    /\ UNCHANGED << libVars, sleeping, optErrors, opts, startResult, sock, workers, rxClosed, holders, pending,
                    ret, accN, accFrom, sentN, sentFrom, inflight, failedLast >>

\* Every Sender is dropped and the buffer is empty.
RecvNoneOnEmptyQueue == queue = << >>
RecvNoneTxKeptAlive == FALSE
RecvNoneWithoutDrain == holders = {}
RecvNone == holders = {} /\ queue = << >>

\* rx.blocking_recv() returns None: the loop and the thread end, rx and sock drop
WorkerExit ==
    /\ wpc = "recv"
    /\ RecvNone
    /\ wpc' = "stopped"
    /\ rxClosed' = TRUE
    /\ sock' = "closed"
    /\ UNCHANGED << libVars, sleeping, optErrors, opts, startResult, workers, cur, queue, permits, waiters,
                    holders, pc, pending, ret, accN, accFrom, sentN, sentFrom, inflight, failedLast >>

\* The record of one socket send call.
SendCall(env, who) == [by |-> who, env |-> env]

\* sock.send(b, 0) / sock.send_multipart(frames, 0) is entered; the payload
\* is moved into the call
WorkerSendCall ==
    /\ wpc = "dequeued"
    /\ wpc' = "sending"
    /\ inflight' = SendCall(cur, "worker")
    /\ cur' = NoEnv
    /\ sentN' = sentN + 1
    /\ sentFrom' = [sentFrom EXCEPT ![cur.src] = @ + 1]
    /\ failedLast' = FALSE
    /\ UNCHANGED << libVars, sleeping, optErrors, opts, startResult, sock, workers, queue, permits, waiters,
                    rxClosed, holders, pc, pending, ret, accN, accFrom >>

\* Where the loop goes when the send call has returned: on Err it logs and
\* sleeps, on Ok it receives again.
AfterSendAlwaysBackoff(ok) == "backoff"
AfterSendRewarm(ok) == IF ok THEN "recv" ELSE "warmup"
AfterSendBreakOnError(ok) == IF ok THEN "recv" ELSE "stopped"
AfterSend(ok) == IF ok THEN "recv" ELSE "backoff"

\* The sleep the loop enters when the send call has returned: 50 ms on Err,
\* none on Ok.
SleepAfterSend(ok) == IF ok THEN 0 ELSE BACKOFF_MS

\* The buffer after a send call of env has returned: neither branch touches it.
QueueAfterSendPurge(q, env, ok) == IF ok THEN q ELSE << >>
QueueAfterSendRequeue(q, env, ok) == IF ok THEN q ELSE Append(q, env)
QueueAfterSend(q, env, ok) == q

\* the send call returns Ok or Err
WorkerSendReturn(ok) ==
    /\ wpc = "sending"
    /\ wpc' = AfterSend(ok)
    /\ sleeping' = SleepAfterSend(ok)
    /\ queue' = QueueAfterSend(queue, inflight.env, ok)
    /\ inflight' = NoCall
    /\ failedLast' = ~ok
    /\ UNCHANGED << libVars, optErrors, cur, opts, startResult, sock, workers, permits, waiters, rxClosed,
                    holders, pc, pending, ret, accN, accFrom, sentN, sentFrom >>

\* thread::sleep(50 ms) ends
BackoffDone ==
    /\ wpc = "backoff"
    /\ wpc' = "recv"
    /\ sleeping' = 0
    /\ UNCHANGED << libVars, optErrors, opts, startResult, sock, workers, cur, queue, permits, waiters,
                    rxClosed, holders, pc, pending, ret, accN, accFrom, sentN, sentFrom, inflight, failedLast >>

\* ------------------------------------------------------------ producers
CanCallWorkerIdle(p) ==
    /\ p \in holders
    /\ pc[p] = "idle"
    /\ wpc \notin {"sending", "backoff"}
    /\ accN + Cardinality({ q \in Producers : pc[q] # "idle" }) < MaxEnvelopes

\* A producer that can begin an enqueue call.
CanCall(p) ==
    /\ p \in holders
    /\ pc[p] = "idle"
    /\ accN + Cardinality({ q \in Producers : pc[q] # "idle" }) < MaxEnvelopes

\* The envelope as the channel accepts it from p, with its history tags.
Tagged(env, p) == [env EXCEPT !.src = p, !.pn = accFrom[p] + 1, !.seq = accN + 1]

\* The channel accepts env from p.
Accept(p, env) ==
    /\ queue' = ChanPush(queue, Tagged(env, p))
    /\ accN' = accN + 1
    /\ accFrom' = [accFrom EXCEPT ![p] = @ + 1]

TrySendResultNeverFull(closed, n) == IF closed THEN "ChannelClosed" ELSE "Ok"

\* The result of tx.try_send on a channel with n free slots.
TrySendResult(closed, n) ==
    IF closed THEN "ChannelClosed" ELSE IF HasPermit(n) THEN "Ok" ELSE "QueueFull"

ChanSendFailFast(p, env) ==
    /\ IF rxClosed
       THEN /\ ret' = Res(p, "ChannelClosed", FALSE)
            /\ UNCHANGED << queue, permits, waiters, pc, pending, accN, accFrom >>
       ELSE IF HasPermit(permits)
       THEN /\ permits' = permits - 1
            /\ Accept(p, env)
            /\ ret' = Res(p, "Ok", FALSE)
            /\ UNCHANGED << waiters, pc, pending >>
       ELSE /\ ret' = Res(p, "QueueFull", FALSE)
            /\ UNCHANGED << queue, permits, waiters, pc, pending, accN, accFrom >>
    /\ UNCHANGED << libVars, sleeping, optErrors, opts, startResult, sock, workers, wpc, cur, rxClosed, holders,
                    sentN, sentFrom, inflight, failedLast >>

\* tx.send(env).await, first poll: the envelope is accepted if a slot is
\* free, the caller is suspended at the back of the waiters otherwise.
ChanSend(p, env) ==
    /\ IF rxClosed
       THEN /\ ret' = Res(p, "ChannelClosed", FALSE)
            /\ UNCHANGED << queue, permits, waiters, pc, pending, accN, accFrom >>
       ELSE IF HasPermit(permits)
       THEN /\ permits' = permits - 1
            /\ Accept(p, env)
            /\ ret' = Res(p, "Ok", FALSE)
            /\ UNCHANGED << waiters, pc, pending >>
       ELSE /\ waiters' = Append(waiters, p)
            /\ pc' = [pc EXCEPT ![p] = "blocked"]
            /\ pending' = [pending EXCEPT ![p] = env]
            /\ UNCHANGED << queue, permits, accN, accFrom, ret >>
    /\ UNCHANGED << libVars, sleeping, optErrors, opts, startResult, sock, workers, wpc, cur, rxClosed, holders,
                    sentN, sentFrom, inflight, failedLast >>

\* send_bytes(bytes)
SendBytes(p, b) ==
    /\ CanCall(p)
    /\ ChanSend(p, EnvBytes(b))

\* The suspended send is woken with the slot it was granted and completes.
SendResume(p) ==
    /\ pc[p] = "granted"
    /\ Accept(p, pending[p])
    /\ ret' = Res(p, "Ok", TRUE)
    /\ pc' = [pc EXCEPT ![p] = "idle"]
    /\ pending' = [pending EXCEPT ![p] = NoEnv]
    /\ UNCHANGED << libVars, sleeping, optErrors, opts, startResult, sock, workers, wpc, cur, permits, waiters,
                    rxClosed, holders, sentN, sentFrom, inflight, failedLast >>

TrySendBytesKeepsRejected(p, b) ==
    /\ CanCall(p)
    /\ ret' = Res(p, TrySendResult(rxClosed, permits), FALSE)
    /\ Accept(p, EnvBytes(b))
    /\ permits' = (IF TrySendResult(rxClosed, permits) = "Ok" THEN permits - 1 ELSE permits)
    /\ UNCHANGED << libVars, sleeping, optErrors, opts, startResult, sock, workers, wpc, cur, waiters, rxClosed,
                    holders, pc, pending, sentN, sentFrom, inflight, failedLast >>

\* try_send_bytes(bytes)
TrySendBytes(p, b) ==
    /\ CanCall(p)
    /\ ret' = Res(p, TrySendResult(rxClosed, permits), FALSE)
    /\ IF TrySendResult(rxClosed, permits) = "Ok"
       THEN /\ permits' = permits - 1
            /\ Accept(p, EnvBytes(b))
       ELSE UNCHANGED << permits, queue, accN, accFrom >>
    /\ UNCHANGED << libVars, sleeping, optErrors, opts, startResult, sock, workers, wpc, cur, waiters, rxClosed,
                    holders, pc, pending, sentN, sentFrom, inflight, failedLast >>

\* A call that returns Err(Serialize) before anything is queued.
SerializeFails(p) ==
    /\ ret' = Res(p, "Serialize", FALSE)
    /\ UNCHANGED << libVars, sleeping, optErrors, opts, startResult, sock, workers, wpc, cur, queue, permits, waiters,
                    rxClosed, holders, pc, pending, accN, accFrom, sentN, sentFrom, inflight, failedLast >>

\* send_json(v)
SendJson(p, v) ==
    /\ CanCall(p)
    /\ IF SerializeOk(v)
       THEN ChanSend(p, EnvBytes(to_vec(v)))
       ELSE SerializeFails(p)

\* send_topic_json(topic, v)
SendTopicJson(p, topic, v) ==
    /\ CanCall(p)
    /\ IF SerializeOk(v)
       THEN ChanSend(p, EnvMultipart(<< topic, to_vec(v) >>))
       ELSE SerializeFails(p)

\* ZmqSender::clone: p hands a clone of its handle to q
Clone(p, q) ==
    /\ p \in holders
    /\ q \notin holders
    /\ holders' = holders \cup {q}
    /\ UNCHANGED << libVars, sleeping, optErrors, opts, startResult, sock, workers, wpc, cur, queue, permits, waiters,
                    rxClosed, pc, pending, ret, accN, accFrom, sentN, sentFrom, inflight, failedLast >>

DropCancelsDequeued(p) ==
    /\ p \in holders
    /\ pc[p] = "idle"
    /\ holders' = holders \ {p}
    /\ IF holders = {p} /\ wpc = "dequeued"
       THEN cur' = NoEnv /\ wpc' = "recv"
       ELSE UNCHANGED << cur, wpc >>
    /\ UNCHANGED << libVars, sleeping, optErrors, opts, startResult, sock, workers, queue, permits, waiters,
                    rxClosed, pc, pending, ret, accN, accFrom, sentN, sentFrom, inflight, failedLast >>

\* Drop of p's handle (a handle borrowed by a pending call cannot be dropped)
Drop(p) ==
    /\ p \in holders
    /\ pc[p] = "idle"
    /\ holders' = holders \ {p}
    /\ UNCHANGED << libVars, sleeping, optErrors, opts, startResult, sock, workers, wpc, cur, queue, permits, waiters,
                    rxClosed, pc, pending, ret, accN, accFrom, sentN, sentFrom, inflight, failedLast >>

\* ------------------------------------------------------------- system
Next ==
    \/ \E o \in OptionSet, createOk \in BOOLEAN, connectOk \in BOOLEAN :
          Start(o, createOk, connectOk, {})
    \/ WorkerBegin
    \/ WarmupDone
    \/ WorkerRecv
    \/ WorkerExit
    \/ WorkerSendCall
    \/ \E ok \in BOOLEAN : WorkerSendReturn(ok)
    \/ BackoffDone
    \/ \E p \in Producers, b \in ByteStrings : SendBytes(p, b)
    \/ \E p \in Producers : SendResume(p)
    \/ \E p \in Producers, b \in ByteStrings : TrySendBytes(p, b)
    \/ \E p \in Producers, v \in JsonValues : SendJson(p, v)
    \/ \E p \in Producers, t \in Topics, v \in JsonValues : SendTopicJson(p, t, v)
    \/ \E p \in Producers, q \in Producers : Clone(p, q)
    \/ \E p \in Producers : Drop(p)

Spec == Init /\ [][Next]_vars

\* The steps the worker thread is sure to take when it can (it is one
\* thread, so at most one of them is enabled): its sleeps end, blocking_recv
\* returns once a value is there or the channel is closed. A send on a Pub
\* socket never blocks; a send with flags 0 on a Push socket blocks while no
\* peer can take the message, so its return is not guaranteed. The async
\* runtime polls a woken send again.
WorkerStep ==
    \/ WorkerBegin
    \/ WarmupDone
    \/ WorkerRecv
    \/ WorkerExit
    \/ WorkerSendCall
    \/ BackoffDone
    \/ (opts.kind = "Pub" /\ \E ok \in BOOLEAN : WorkerSendReturn(ok))

Fairness ==
    /\ WF_vars(WorkerStep)
    /\ \A p \in Producers : WF_vars(SendResume(p))

FairSpec == Spec /\ Fairness

\* One producer that only calls send_json, on a sender of capacity 1 without
\* warm-up, with a wider range of values.
JsonOptions == [pub_default(StartEndpoint) EXCEPT !.queue_capacity = 1, !.warmup_ms = 0]

JsonNext ==
    \/ \E createOk \in BOOLEAN, connectOk \in BOOLEAN : Start(JsonOptions, createOk, connectOk, {})
    \/ WorkerBegin
    \/ WorkerRecv
    \/ WorkerExit
    \/ WorkerSendCall
    \/ \E ok \in BOOLEAN : WorkerSendReturn(ok)
    \/ BackoffDone
    \/ \E v \in RoundTripValues \cup JsonValues : SendJson("p1", v)
    \/ SendResume("p1")
    \/ Drop("p1")

JsonSpec == Init /\ [][JsonNext]_vars

\* The sender started with any of the three option set calls failing, used
\* by one producer (in Spec and JsonSpec the set calls succeed).
StartNext ==
    \/ \E o \in OptionSet, createOk \in BOOLEAN, connectOk \in BOOLEAN,
          failed \in SUBSET SocketOptions : Start(o, createOk, connectOk, failed)
    \/ WorkerBegin
    \/ WarmupDone
    \/ WorkerRecv
    \/ WorkerExit
    \/ WorkerSendCall
    \/ \E ok \in BOOLEAN : WorkerSendReturn(ok)
    \/ BackoffDone
    \/ \E b \in ByteStrings : SendBytes("p1", b)
    \/ SendResume("p1")
    \/ Drop("p1")

StartSpec == Init /\ [][StartNext]_vars

\* ------------------------------------------------------------- presets
\* ZmqSenderOptions::pub_default(endpoint) is called
PubDefault ==
    /\ built.via = "call"
    /\ built' = [built EXCEPT !.via = "pub_default", !.value = pub_default(built.arg)]
    /\ UNCHANGED << zmqVars, listed, paginated, exchange >>

\* ZmqSenderOptions::push_default(endpoint) is called
PushDefault ==
    /\ built.via = "call"
    /\ built' = [built EXCEPT !.via = "push_default", !.value = push_default(built.arg)]
    /\ UNCHANGED << zmqVars, listed, paginated, exchange >>

\* ---------------------------------------------------------- pagination
\* Option<usize>: Some(n) and None.
Some(n) == [some |-> TRUE, v |-> n]
None == [some |-> FALSE, v |-> 0]

Min(a, b) == IF a < b THEN a ELSE b
Max(a, b) == IF a > b THEN a ELSE b

\* usize::saturating_sub
saturating_sub(a, b) == IF a > b THEN a - b ELSE 0

\* usize addition: the sum wraps when it does not fit (a build with overflow
\* checks panics instead, see get_pages).
Overflows(x) == x > USIZE_MAX
Wrap(x) == x % (USIZE_MAX + 1)

\* (a..b).map(Some) as a sequence; empty when a >= b.
SomeRange(a, b) == IF a < b THEN [i \in 1..(b - a) |-> Some(a + i - 1)] ELSE << >>

\* get_pages(total_pages, current_page, left_edge, left_current,
\* right_current, right_edge) in a build with (checked) or without overflow
\* checks: the page list, or a panic.
get_pages(total_pages, current_page, left_edge, left_current, right_current, right_edge, checked) ==
    LET last_page == total_pages
        last_plus_1 == last_page + 1
        left_sum == 1 + left_edge
        left_end == Min(Wrap(left_sum), Wrap(last_plus_1))
        mid_start == Max(left_end, saturating_sub(current_page, left_current))
        cur_sum1 == current_page + right_current
        cur_sum2 == Wrap(cur_sum1) + 1
        mid_end == Min(Wrap(cur_sum2), Wrap(last_plus_1))
        right_sum == saturating_sub(last_page, right_edge) + 1
        right_start == Max(mid_end, Wrap(right_sum))
        overflow == \/ Overflows(left_sum) \/ Overflows(last_plus_1)
                    \/ Overflows(cur_sum1) \/ Overflows(cur_sum2)
                    \/ Overflows(right_sum)
        left == SomeRange(1, left_end)
        gap1 == IF mid_start > left_end THEN << None >> ELSE << >>
        mid == SomeRange(mid_start, mid_end)
        gap2 == IF right_start > mid_end THEN << None >> ELSE << >>
        right == SomeRange(right_start, last_page + 1)
    IN  IF last_page = 0 THEN [outcome |-> "ok", pages |-> << >>]
        ELSE IF checked /\ overflow THEN [outcome |-> "panic", pages |-> << >>]
        ELSE [outcome |-> "ok", pages |-> left \o gap1 \o mid \o gap2 \o right]

\* get_pages called directly (as the unit tests do), without overflow checks;
\* its arguments are small enough for no sum to overflow.
GetPages ==
    /\ listed.outcome = "call"
    /\ LET got == get_pages(listed.total_pages, listed.current_page, listed.left_edge,
                            listed.left_current, listed.right_current, listed.right_edge, FALSE)
       IN  listed' = [listed EXCEPT !.outcome = got.outcome, !.pages = got.pages]
    /\ UNCHANGED << zmqVars, built, paginated, exchange >>

\* The arguments Paginated::new is called with.
TotalPagesArgs == 0..MaxTotalPages \cup { USIZE_MAX }
CurrentPageArgs == 0..MaxCurrentPage \cup (USIZE_MAX - 5)..USIZE_MAX

\* Paginated::new(items, current_page, total_pages); the items are stored as
\* they are and left out.
PaginatedNew ==
    /\ paginated.outcome = "call"
    /\ LET current == IF paginated.current_page = 0 THEN 1 ELSE paginated.current_page
           got == get_pages(paginated.total_pages, current, 2, 2, 4, 2, paginated.checked)
       IN  paginated' = [paginated EXCEPT !.outcome = got.outcome, !.pages = got.pages,
                                          !.page = IF got.outcome = "ok" THEN current ELSE 0]
    /\ UNCHANGED << zmqVars, listed, built, exchange >>

\* ---------------------------------------------------------- middleware
\* A text is a sequence of tokens: the punctuation marks of a URL, their
\* percent-encoded forms, and words of unreserved characters.
IndexOf(s, tok) ==
    IF \E i \in DOMAIN s : s[i] = tok
    THEN CHOOSE i \in DOMAIN s : s[i] = tok /\ \A j \in 1..(i - 1) : s[j] # tok
    ELSE 0
Contains(s, tok) == IndexOf(s, tok) # 0
\* str::split_once(tok): the parts before and after the first tok; without a
\* tok, Before is the whole text and After is empty.
Before(s, tok) == IF Contains(s, tok) THEN SubSeq(s, 1, IndexOf(s, tok) - 1) ELSE s
After(s, tok) == IF Contains(s, tok) THEN SubSeq(s, IndexOf(s, tok) + 1, Len(s)) ELSE << >>

RECURSIVE SplitAll(_, _)
SplitAll(s, tok) ==
    IF Contains(s, tok) THEN << Before(s, tok) >> \o SplitAll(After(s, tok), tok) ELSE << s >>

\* form_urlencoded byte serialization and its inverse, token by token.
EncodeTok(t) ==
    CASE t = ":" -> "%3A" [] t = "/" -> "%2F" [] t = "?" -> "%3F" [] t = "=" -> "%3D"
      [] t = "&" -> "%26" [] t = "#" -> "%23" [] t = " " -> "+"
      [] t = "%3A" -> "%253A" [] t = "%2F" -> "%252F" [] t = "%3F" -> "%253F"
      [] t = "%3D" -> "%253D" [] t = "%26" -> "%2526" [] t = "%23" -> "%2523"
      [] t = "+" -> "%2B"
      [] OTHER -> t
DecodeTok(t) ==
    CASE t = "%3A" -> ":" [] t = "%2F" -> "/" [] t = "%3F" -> "?" [] t = "%3D" -> "="
      [] t = "%26" -> "&" [] t = "%23" -> "#" [] t = "+" -> " "
      [] t = "%253A" -> "%3A" [] t = "%252F" -> "%2F" [] t = "%253F" -> "%3F"
      [] t = "%253D" -> "%3D" [] t = "%2526" -> "%26" [] t = "%2523" -> "%23"
      [] t = "%2B" -> "+"
      [] OTHER -> t
Encode(s) == [i \in DOMAIN s |-> EncodeTok(s[i])]
Decode(s) == [i \in DOMAIN s |-> DecodeTok(s[i])]

\* form_urlencoded::parse(q): the decoded (name, value) pairs of a query.
NonEmpty(piece) == piece # << >>
QueryPairs(q) ==
    LET pieces == SelectSeq(SplitAll(q, "&"), NonEmpty)
    IN  [i \in DOMAIN pieces |->
            [k |-> Decode(Before(pieces[i], "=")), v |-> Decode(After(pieces[i], "="))]]

\* .find(|(k, _)| k == "next").map(|(_, v)| v): the value of the first pair
\* named next, if there is one.
IsNext(pair) == pair.k = << "next" >>
HasNext(q) == SelectSeq(QueryPairs(q), IsNext) # << >>
NextOf(q) == SelectSeq(QueryPairs(q), IsNext)[1].v

\* Url::parse(s) of the url crate, for http and https texts: the parts of an
\* absolute URL (an empty path becomes /), or the error.
UrlParse(s) ==
    LET absolute == /\ Len(s) >= 4 /\ s[1] \in {"http", "https"}
                    /\ s[2] = ":" /\ s[3] = "/" /\ s[4] = "/"
        rest == SubSeq(s, 5, Len(s))
        nofrag == Before(rest, "#")
        noquery == Before(nofrag, "?")
        host == Before(noquery, "/")
        path == IF Contains(noquery, "/")
                THEN SubSeq(noquery, IndexOf(noquery, "/"), Len(noquery)) ELSE << "/" >>
        err == IF ~absolute THEN "RelativeUrlWithoutBase"
               ELSE IF host = << >> THEN "EmptyHost"
               ELSE IF Contains(host, " ") THEN "InvalidDomainCharacter"
               ELSE "none"
    IN  [err |-> err, scheme |-> IF absolute THEN s[1] ELSE "", host |-> host, path |-> path,
         has_query |-> Contains(nofrag, "?"), query |-> After(nofrag, "?"),
         has_fragment |-> Contains(rest, "#"), fragment |-> After(rest, "#")]

\* Url::to_string
UrlToString(u) ==
    << u.scheme, ":", "/", "/" >> \o u.host \o u.path
    \o (IF u.has_query THEN << "?" >> \o u.query ELSE << >>)
    \o (IF u.has_fragment THEN << "#" >> \o u.fragment ELSE << >>)

\* url.query_pairs_mut().append_pair(name, value)
AppendPair(u, name, value) ==
    [u EXCEPT !.has_query = TRUE,
              !.query = (IF u.query # << >> THEN u.query \o << "&" >> ELSE << >>)
                        \o << name, "=" >> \o Encode(value)]

\* build_redirect_url(auth_service_url, incoming_url): Ok(url) or Err.
build_redirect_url(auth_service_url, incoming_url) ==
    LET incoming == UrlParse(incoming_url)
        base_in == Before(incoming_url, "#")
        next_value ==
            IF incoming.err = "none"
            THEN IF HasNext(incoming.query) THEN NextOf(incoming.query) ELSE incoming_url
            ELSE IF Contains(base_in, "?") /\ HasNext(After(base_in, "?"))
                 THEN NextOf(After(base_in, "?")) ELSE incoming_url
        auth == UrlParse(auth_service_url)
        encoded_next == << "next", "=" >> \o Encode(next_value)
        base == Before(auth_service_url, "#")
        path == Before(base, "?")
        q == After(base, "?")
        relative ==
            path
            \o (IF Contains(base, "?")
                THEN << "?" >> \o q
                     \o (IF HasNext(q) THEN << >>
                         ELSE (IF q # << >> THEN << "&" >> ELSE << >>) \o encoded_next)
                ELSE << "?" >> \o encoded_next)
            \o (IF Contains(auth_service_url, "#")
                THEN << "#" >> \o After(auth_service_url, "#") ELSE << >>)
    IN  IF auth.err = "none"
        THEN [ok |-> TRUE,
              url |-> UrlToString(IF HasNext(auth.query) THEN auth
                                  ELSE AppendPair(auth, "next", next_value))]
        ELSE IF auth.err = "RelativeUrlWithoutBase"
        THEN [ok |-> TRUE, url |-> relative]
        ELSE [ok |-> FALSE, url |-> << >>]

\* res.status() == StatusCode::UNAUTHORIZED
IsUnauthorizedAnyClientError(status) == status \in 400..499
IsUnauthorized(status) == status = 401

\* The configured auth_service_url values.
AuthUrls ==
    { << "http", ":", "/", "/", "auth.test.me", "/" >>,
      << "http", ":", "/", "/", "auth.test.me" >>,
      << "http", ":", "/", "/", "auth.test.me", "/", "?", "next", "=", "custom" >>,
      << "https", ":", "/", "/", "auth.test.me", "/", "signin", "?", "a", "=", "1", "#", "top" >>,
      << "/", "auth", "/", "signin" >>,
      << "/", "auth", "/", "signin", "#", "step2" >>,
      << "/", "auth", "/", "signin", "?", "next", "=", "custom" >>,
      << "/", "auth", "/", "signin", "?" >>,
      << "/", "auth", "/", "signin", "?", "a", "=", "1" >>,
      << "http", ":", "/", "/" >>,
      << "http", ":", "/", "/", "auth", " ", "test", "/" >> }

\* The Host header and the request target of the incoming request.
Hosts == { << "localhost", ":", "8080" >>, << "local", " ", "host" >> }
Uris ==
    { << "/" >>,
      << "/", "path", "?", "x", "=", "1", "&", "next", "=", "https", "%3A", "%2F", "%2F",
         "example.com", "%2F", "target", "%3F", "a", "%3D", "1", "%26", "b", "%3D", "2",
         "&", "y", "=", "2" >>,
      << "/", "path", "?", "q", "=", "a", "+", "b", "#", "frag" >> }

\* The statuses the wrapped service responds with.
InnerStatuses == { 200, 302, 401, 403, 404, 500 }

\* RedirectUnauthorizedMiddleware::call(req) and the future it returns, to
\* completion.
Call ==
    /\ exchange.outcome = "call"
    /\ LET incoming_url == << "http", ":", "/", "/" >> \o exchange.host \o exchange.uri
           redirect == build_redirect_url(exchange.auth_service_url, incoming_url)
       IN  exchange' =
             IF ~exchange.config_present
             THEN \* Server config not found: the wrapped service is not called
                  [exchange EXCEPT !.outcome = "error", !.status = 500]
             ELSE IF exchange.inner = "error"
             THEN \* fut.await? passes the wrapped service's error on
                  [exchange EXCEPT !.outcome = "inner_error", !.forwarded = TRUE]
             ELSE IF IsUnauthorized(exchange.inner_status)
             THEN IF redirect.ok
                  THEN [exchange EXCEPT !.outcome = "response", !.forwarded = TRUE,
                                        !.status = 303, !.location = redirect.url]
                  ELSE \* Invalid auth service URL
                       [exchange EXCEPT !.outcome = "error", !.forwarded = TRUE, !.status = 500]
             ELSE [exchange EXCEPT !.outcome = "response", !.forwarded = TRUE,
                                   !.status = exchange.inner_status]
    /\ UNCHANGED << zmqVars, listed, built, paginated >>

\* ------------------------------------------------- the helpers' system
\* One helper is about to be called, with arguments from the sets above.
LibInit ==
    /\ ZmqInit
    /\ \/ /\ built \in { [NoOptions EXCEPT !.via = "call", !.arg = e] : e \in Endpoints }
          /\ paginated = NoPaginated
          /\ exchange = NoExchange
          /\ listed = NoListed
       \/ /\ built = NoOptions
          /\ paginated = NoPaginated
          /\ exchange = NoExchange
          /\ listed \in { [NoListed EXCEPT !.outcome = "call", !.total_pages = tp,
                                           !.current_page = cp, !.left_edge = le,
                                           !.left_current = lc, !.right_current = rc,
                                           !.right_edge = re] :
                             tp \in 0..MaxTotalPages, cp \in 0..MaxCurrentPage,
                             le \in 0..MaxEdge, lc \in 0..MaxAround,
                             rc \in 0..MaxAround, re \in 0..MaxEdge }
       \/ /\ built = NoOptions
          /\ paginated \in { [NoPaginated EXCEPT !.outcome = "call", !.total_pages = tp,
                                                  !.current_page = cp, !.checked = ck] :
                                tp \in TotalPagesArgs, cp \in CurrentPageArgs, ck \in BOOLEAN }
          /\ exchange = NoExchange
          /\ listed = NoListed
       \/ /\ built = NoOptions
          /\ paginated = NoPaginated
          /\ listed = NoListed
          /\ exchange \in
               { [NoExchange EXCEPT !.outcome = "call", !.config_present = TRUE,
                                    !.auth_service_url = a, !.host = h, !.uri = u,
                                    !.inner = "response", !.inner_status = st] :
                   a \in AuthUrls, h \in Hosts, u \in Uris, st \in InnerStatuses }
               \cup
               { [NoExchange EXCEPT !.outcome = "call", !.config_present = TRUE,
                                    !.auth_service_url = a, !.host = h, !.uri = u,
                                    !.inner = "error"] :
                   a \in AuthUrls, h \in Hosts, u \in Uris }
               \cup
               { [NoExchange EXCEPT !.outcome = "call", !.host = h, !.uri = u,
                                    !.inner = "response", !.inner_status = st] :
                   h \in Hosts, u \in Uris, st \in InnerStatuses }

LibNext ==
    \/ PubDefault
    \/ PushDefault
    \/ PaginatedNew
    \/ GetPages
    \/ Call

LibSpec == LibInit /\ [][LibNext]_vars

\* ================================================================ claims
Started == startResult = "Ok"
\* Every handle has been dropped after a successful start.
AllDropped == Started /\ holders = {}
Granted == { p \in Producers : pc[p] = "granted" }

\* C1: per-producer FIFO. The k-th envelope of a producer that the worker
\* passes to the socket send call is the k-th envelope of that producer the
\* channel accepted, for every send call of the run.
C1_PerProducerFifo ==
    wpc = "sending" =>
        /\ inflight.env.src \in Producers
        /\ inflight.env.pn = sentFrom[inflight.env.src]

\* C1 witness: the second envelope of one producer is in the send call after
\* an envelope of the other producer was sent.
C1_Witness ==
    /\ wpc = "sending"
    /\ inflight.env.src = "p1"
    /\ inflight.env.pn = 2
    /\ sentFrom["p2"] >= 1

\* C2 as stated: on an open channel try_send_bytes returns QueueFull exactly
\* when the buffer holds queue_capacity envelopes.
C2_FullIffBufferAtCapacity ==
    [][\A p \in Producers, b \in ByteStrings :
         (TrySendBytes(p, b) /\ ~rxClosed) =>
             ((ret'.res = "QueueFull") <=> (Len(queue) = opts.queue_capacity))]_vars

\* C2 amended: on an open channel try_send_bytes returns QueueFull exactly
\* when no slot is free, that is when the envelopes in the buffer plus the
\* slots already handed to suspended send calls that have not completed yet
\* number queue_capacity; otherwise it returns Ok and the envelope is appended
\* at the back of the buffer.
C2_FullIffNoFreeSlot ==
    [][\A p \in Producers, b \in ByteStrings :
         (TrySendBytes(p, b) /\ ~rxClosed) =>
             /\ ret'.by = p
             /\ (ret'.res = "QueueFull") <=>
                    (Len(queue) + Cardinality(Granted) = opts.queue_capacity)
             /\ ret'.res = "QueueFull" => queue' = queue
             /\ ret'.res # "QueueFull" =>
                    /\ ret'.res = "Ok"
                    /\ Len(queue') = Len(queue) + 1
                    /\ SubSeq(queue', 1, Len(queue)) = queue
                    /\ queue'[Len(queue')].frames = << b >>
                    /\ queue'[Len(queue')].kind = "Bytes"]_vars

\* C2 witness: try_send_bytes has just returned QueueFull while the buffer
\* holds fewer than queue_capacity envelopes (a slot is held by a woken send).
C2_Witness ==
    \E p \in Producers :
        /\ ret = Res(p, "QueueFull", FALSE)
        /\ pc[p] = "idle"
        /\ Len(queue) < opts.queue_capacity
        /\ Granted # {}
        /\ permits = 0

\* C3: at most once. The k-th send call carries the k-th accepted envelope,
\* so no envelope is passed to the socket twice; an envelope that was passed
\* to the socket is neither in the buffer nor held by the worker afterwards,
\* whether its send succeeded or failed.
C3_AtMostOnce ==
    /\ wpc = "sending" => inflight.env.seq = sentN
    /\ wpc = "dequeued" => cur.seq = sentN + 1
    /\ wpc \notin {"dequeued"} => cur = NoEnv
    /\ wpc # "sending" => inflight = NoCall
    /\ \A i \in DOMAIN queue : queue[i].seq > sentN
    /\ \A p \in Producers : pending[p] # NoEnv => pending[p].seq = 0

\* C3 witness: a send has failed, the worker is in its backoff, and other
\* envelopes wait in the buffer.
C3_Witness == wpc = "backoff" /\ failedLast /\ queue # << >> /\ sentN >= 2

\* The worker is blocked for good in a send call on a Push socket.
SendBlocksForever == <>[](wpc = "sending" /\ opts.kind = "Push")

\* C4: a failed send does not stop the worker. A send call that returns an
\* error takes the worker to its backoff and from there back to the receive;
\* the envelope then at the front of the buffer is dequeued and passed to the
\* socket next, however many sends failed before; after a failure the worker is
\* stopped only if every handle is dropped and the buffer is empty.
C4_FailureDoesNotStopWorker ==
    /\ [][(wpc = "sending" /\ wpc' # "sending") =>
            (wpc' \in {"recv", "backoff"} /\ (failedLast' <=> wpc' = "backoff"))]_vars
    /\ [][wpc = "backoff" => (failedLast /\ wpc' \in {"backoff", "recv"})]_vars
    /\ [](failedLast /\ wpc = "stopped" => holders = {} /\ queue = << >>)
    /\ [][(failedLast /\ wpc = "recv" /\ wpc' # "recv" /\ queue # << >>) =>
            (wpc' = "dequeued" /\ cur' = Head(queue))]_vars
    /\ [][(wpc = "dequeued" /\ wpc' # "dequeued") =>
            (wpc' = "sending" /\ inflight'.env = cur)]_vars
    /\ (failedLast /\ wpc # "dequeued" /\ queue # << >>) ~> (wpc = "sending")

\* C4 witness: after a failed send, and a failed one before it, the next
\* envelope has been dequeued and is about to be passed to the socket.
C4_Witness == wpc = "dequeued" /\ failedLast /\ sentN >= 2

\* C6: send_bytes on a full channel suspends the caller with its envelope
\* kept and the buffer untouched; when it is woken the envelope goes to the
\* back of the buffer unchanged; a suspended call returns nothing but Ok; and
\* while the worker keeps dequeuing every suspended call eventually returns:
\* unless the worker is blocked for good in a send, again and again no
\* producer is suspended (the producers make finitely many calls, so this
\* says that every suspension ends).
C6_BlockingSendCompletes ==
    /\ [][\A p \in Producers, b \in ByteStrings :
            (SendBytes(p, b) /\ ~rxClosed /\ permits = 0) =>
                /\ pc'[p] = "blocked"
                /\ pending'[p] = EnvBytes(b)
                /\ queue' = queue
                /\ ret' = ret]_vars
    /\ [][\A p \in Producers :
            (pc[p] # "idle" /\ pc'[p] = "idle") =>
                /\ ret' = Res(p, "Ok", TRUE)
                /\ Len(queue') = Len(queue) + 1
                /\ SubSeq(queue', 1, Len(queue)) = queue
                /\ queue'[Len(queue')].frames = pending[p].frames
                /\ queue'[Len(queue')].kind = pending[p].kind
                /\ queue'[Len(queue')].src = p]_vars
    /\ [][\A p \in Producers, b \in ByteStrings :
            SendBytes(p, b) =>
                \/ (pc'[p] = "blocked" /\ ret' = ret /\ ~rxClosed)
                \/ (pc'[p] = "idle" /\ ret' = Res(p, "Ok", FALSE) /\ ~rxClosed)
                \/ (pc'[p] = "idle" /\ ret' = Res(p, "ChannelClosed", FALSE) /\ rxClosed)]_vars
    /\ [](ret.waited => ret.res = "Ok")
    /\ \/ SendBlocksForever
       \/ []<>(\A p \in Producers : pc[p] = "idle")

\* C6 witness: a call that was suspended on a full channel has returned Ok
\* and its envelope has reached the socket.
C6_Witness ==
    \E p \in Producers :
        /\ pc[p] = "idle"
        /\ ret = Res(p, "Ok", TRUE)
        /\ wpc = "sending"
        /\ inflight.env.src = p
        /\ inflight.env.pn = accFrom[p]

\* C7: shutdown drains. With every handle dropped the worker is stopped only
\* when every accepted envelope has been passed to the socket send call and
\* the buffer is empty; until then it keeps the socket and its receiver, and
\* the envelopes still queued are the next ones to be sent, in acceptance order.
C7_DrainBeforeExit ==
    AllDropped =>
        /\ wpc = "stopped" => (sentN = accN /\ queue = << >> /\ cur = NoEnv)
        /\ wpc # "stopped" => (sock = "open" /\ ~rxClosed)
        /\ sentN + Len(queue) + (IF wpc = "dequeued" THEN 1 ELSE 0) = accN
        /\ wpc = "sending" => inflight.env.seq = sentN
        /\ \A i \in DOMAIN queue :
               queue[i].seq = sentN + (IF wpc = "dequeued" THEN 1 ELSE 0) + i

\* C7 witness: the last handle was dropped with envelopes still queued, and
\* the worker is passing one to the socket with another still in the buffer.
C7_Witness == AllDropped /\ wpc = "sending" /\ queue # << >> /\ sentN >= 1

\* C8 as stated: once every handle is dropped the worker thread eventually
\* terminates; it stays blocked forever neither in receive, nor in a socket
\* send, nor in backoff.
C8_EventuallyStops == AllDropped ~> (wpc = "stopped")

\* C8 amended: once every handle is dropped the worker thread eventually
\* terminates, unless a socket send call on a Push socket never returns (the
\* send is made with flags 0 and blocks while no peer can take the message),
\* in which case the worker stays in that call.
C8_StopsUnlessSendBlocks ==
    \/ <>[](wpc = "sending" /\ opts.kind = "Push")
    \/ (AllDropped ~> (wpc = "stopped"))

\* C8 witness: the worker has stopped after passing everything that was
\* accepted to the socket, the last send having failed.
C8_Witness == AllDropped /\ wpc = "stopped" /\ failedLast /\ sentN >= 2

\* C9: single writer. One successful start spawns exactly one worker thread,
\* a failed start none; every socket send call in progress was entered by the
\* worker; the socket is open only while that worker lives; and no step of a
\* producer (an enqueue, a clone, a drop) enters a send call or touches the
\* socket.
C9_SingleWriter ==
    /\ [](/\ workers = (IF Started THEN 1 ELSE 0)
          /\ inflight.by \in {"none", "worker"}
          /\ (inflight # NoCall <=> wpc = "sending")
          /\ (sock = "open" <=> (Started /\ wpc # "stopped")))
    /\ [][(Started /\ (sentN' # sentN \/ inflight' # inflight \/ sock' # sock)) =>
            (ret' = ret /\ holders' = holders /\ pc' = pc /\ accN' = accN /\ pending' = pending)]_vars

\* C9 witness: both producers hold handles and have enqueued, and the worker
\* is in a send call.
C9_Witness ==
    /\ holders = Producers
    /\ \A p \in Producers : accFrom[p] >= 1
    /\ inflight.by = "worker"
    /\ workers = 1

\* The case of C10: capacity 2, the buffer full, both producers suspended in
\* a send.
C10_Case ==
    /\ Started
    /\ opts.queue_capacity = 2
    /\ Len(queue) = 2
    /\ \A p \in Producers : pc[p] = "blocked"

\* C10: from that case, the worker's next receive wakes exactly one producer,
\* the one that was suspended first, and the other stays suspended; and
\* a woken call returns Ok with its envelope accepted; the k-th send call
\* carries the k-th accepted envelope, so none is sent twice; and unless the
\* worker is blocked for good in a send, a state is reached where both calls
\* have returned and every accepted envelope has been passed to the socket.
C10_TwoBlockedProducers ==
    /\ [][(C10_Case /\ queue' # queue) =>
            /\ Len(queue') = 1
            /\ Granted' = { Head(waiters) }
            /\ \A p \in Producers \ { Head(waiters) } : pc'[p] = "blocked"]_vars
    /\ [](\A p \in Producers : sentFrom[p] <= accFrom[p])
    /\ [](Started /\ ~rxClosed => Len(queue) + Cardinality(Granted) + permits = opts.queue_capacity)
    /\ [][\A p \in Producers :
            (pc[p] = "granted" /\ pc'[p] # "granted") =>
                (pc'[p] = "idle" /\ ret' = Res(p, "Ok", TRUE) /\ accFrom'[p] = accFrom[p] + 1)]_vars
    /\ [](wpc = "sending" => inflight.env.seq = sentN /\ sentN <= accN)
    /\ \/ SendBlocksForever
       \/ C10_Case ~> (sentN = accN /\ \A p \in Producers : pc[p] = "idle")

\* C10 witness: the case itself, with the worker paused in its warm-up.
C10_Witness == C10_Case /\ wpc = "warmup"

\* Every envelope the sender holds: queued, carried by a suspended call, held
\* by the worker, or in the socket send call.
EnvelopesHeld ==
    { queue[i] : i \in DOMAIN queue } \cup { pending[p] : p \in Producers }
    \cup { cur, inflight.env }

\* C11: when the value cannot be serialized, send_json and send_topic_json
\* return Serialize and leave the channel as it was: nothing is appended, no
\* slot is taken, the caller is not suspended, the worker sees nothing; no
\* envelope the sender ever holds carries the (empty) output of a failed
\* serialization, and every envelope in a send call is one the channel accepted.
C11_SerializeFailureEnqueuesNothing ==
    /\ [][\A p \in Producers, v \in JsonValues, t \in Topics :
            ((SendJson(p, v) \/ SendTopicJson(p, t, v)) /\ v.t = "unserializable") =>
                /\ ret' = Res(p, "Serialize", FALSE)
                /\ queue' = queue /\ permits' = permits /\ waiters' = waiters
                /\ pc' = pc /\ pending' = pending
                /\ accN' = accN /\ accFrom' = accFrom
                /\ sentN' = sentN /\ cur' = cur /\ inflight' = inflight]_vars
    /\ [](\A e \in EnvelopesHeld : \A i \in DOMAIN e.frames : e.frames[i] # << >>)
    /\ [](wpc = "sending" => inflight.env.seq \in 1..accN)
    /\ [][ret'.res = "Serialize" => accN' = accN]_vars

\* C11 witness: a call has just returned Serialize while accepted envelopes
\* are queued and the worker is in a send call.
C11_Witness ==
    /\ ret.res = "Serialize"
    /\ queue # << >>
    /\ wpc = "sending"

StartFailed == startResult \in {"SocketCreate", "Connect"}

\* C12: a start whose socket creation fails returns SocketCreate, one whose
\* connect fails returns Connect, in the start step itself; after either no
\* worker thread exists or ever runs, nobody holds a handle, the channel is
\* gone (its receiver is dropped, nothing was queued), the socket was never
\* created (SocketCreate) or is closed again (Connect), and the sender's
\* state never changes afterwards.
C12_FailedStartLeavesNothing ==
    /\ [][\A o \in OptionSet, c \in BOOLEAN, k \in BOOLEAN :
            Start(o, c, k, {}) =>
                startResult' = (IF ~c THEN "SocketCreate" ELSE IF ~k THEN "Connect" ELSE "Ok")]_vars
    /\ [](StartFailed =>
            /\ workers = 0 /\ wpc = "none" /\ holders = {}
            /\ rxClosed /\ queue = << >> /\ waiters = << >>
            /\ sock = (IF startResult = "SocketCreate" THEN "none" ELSE "closed")
            /\ accN = 0 /\ sentN = 0 /\ inflight = NoCall /\ ret.by = "none")
    /\ [](startResult = "none" => workers = 0 /\ sock = "none" /\ holders = {})
    /\ [][StartFailed => UNCHANGED zmqVars]_vars

\* C12 witness: start has returned Connect and the socket it had created is
\* closed again.
C12_Witness == startResult = "Connect" /\ sock = "closed" /\ workers = 0

\* C13: a send_topic_json(topic, v) that is accepted (at once, or suspended
\* first) puts a Multipart envelope of exactly the two frames topic and the
\* JSON text of v, in that order; send_bytes and send_json put a Bytes
\* envelope of the one frame handed over (for send_json the JSON text); the
\* worker passes kind and frames unchanged from the buffer to the socket
\* call, one frame for Bytes and the two for Multipart; and unless the worker
\* is blocked for good in a send, every accepted envelope gets its send call.
\* (The value 7 has the JSON text "7", the byte 55.)
C13_FramesAsEnqueued ==
    /\ [][\A p \in Producers, t \in Topics :
            SendTopicJson(p, t, [t |-> "uint", v |-> 7]) =>
                LET e == IF pc'[p] = "blocked" THEN pending'[p] ELSE queue'[Len(queue')]
                IN  \/ ret'.res = "ChannelClosed"
                    \/ e.kind = "Multipart" /\ e.frames = << t, << 55 >> >>]_vars
    /\ [][\A p \in Producers :
            SendJson(p, [t |-> "uint", v |-> 7]) =>
                LET e == IF pc'[p] = "blocked" THEN pending'[p] ELSE queue'[Len(queue')]
                IN  \/ ret'.res = "ChannelClosed"
                    \/ e.kind = "Bytes" /\ e.frames = << << 55 >> >>]_vars
    /\ [][\A p \in Producers, b \in ByteStrings :
            (SendBytes(p, b) \/ (TrySendBytes(p, b) /\ accN' # accN)) =>
                LET e == IF pc'[p] = "blocked" THEN pending'[p] ELSE queue'[Len(queue')]
                IN  \/ ret'.res = "ChannelClosed"
                    \/ e.kind = "Bytes" /\ e.frames = << b >>]_vars
    /\ [][\A p \in Producers :
            (pc[p] = "granted" /\ pc'[p] = "idle") =>
                /\ queue'[Len(queue')].kind = pending[p].kind
                /\ queue'[Len(queue')].frames = pending[p].frames]_vars
    /\ [][(wpc = "recv" /\ wpc' = "dequeued") => cur' = Head(queue)]_vars
    /\ [][(wpc = "dequeued" /\ wpc' = "sending") => inflight'.env = cur]_vars
    /\ [](wpc = "sending" =>
            \/ inflight.env.kind = "Bytes" /\ Len(inflight.env.frames) = 1
            \/ /\ inflight.env.kind = "Multipart"
               /\ Len(inflight.env.frames) = 2
               /\ inflight.env.frames[1] \in Topics
               /\ inflight.env.frames[2] = << 55 >>)
    /\ \/ SendBlocksForever
       \/ <>[](sentN = accN)

\* C13 witness: the worker is in the send call of a two-frame envelope of
\* send_topic_json, after a single-frame send.
C13_Witness ==
    /\ wpc = "sending"
    /\ inflight.env.kind = "Multipart"
    /\ inflight.env.frames = << << 97 >>, << 55 >> >>
    /\ sentN >= 2

\* C15: the return of a socket send call, Ok or Err, changes nothing a
\* producer can observe: not the latest result returned, not a suspended
\* call, not the buffer, the free slots or the closed flag; a call returns Ok
\* in the very step that accepts its envelope, which is before the envelope's
\* send call; and no result a producer ever gets is a send error.
C15_SendFailureNeverReported ==
    /\ [][(wpc = "sending" /\ wpc' # "sending") =>
            /\ ret' = ret /\ pc' = pc /\ pending' = pending /\ holders' = holders
            /\ queue' = queue /\ permits' = permits /\ waiters' = waiters
            /\ rxClosed' = rxClosed /\ accN' = accN /\ accFrom' = accFrom]_vars
    /\ [][accN' # accN =>
            /\ accN' = accN + 1
            /\ ret'.res = "Ok"
            /\ ret'.by = queue'[Len(queue')].src
            /\ queue'[Len(queue')].seq = accN']_vars
    /\ [](wpc = "sending" => inflight.env.seq <= accN)
    /\ [](ret.res \in {"none", "Ok", "QueueFull", "ChannelClosed", "Serialize"})
    /\ [][failedLast' # failedLast => ret' = ret]_vars

\* C15 witness: a send has failed and the worker is in its backoff, while
\* the latest enqueue call, of an envelope not yet sent, has returned Ok.
C15_Witness ==
    /\ failedLast /\ wpc = "backoff"
    /\ ret.res = "Ok"
    /\ queue # << >> /\ queue[Len(queue)].src = ret.by

\* C16: send_bytes, send_json, send_topic_json and the resumption of a
\* suspended call never return QueueFull: each either suspends the caller
\* (nothing is returned) or returns Ok, ChannelClosed or Serialize; with no
\* free slot on an open channel a serializable call is suspended; and a step
\* that returns QueueFull has the shape of try_send_bytes (no slot free,
\* nobody suspended by it, nothing appended).
C16_QueueFullOnlyFromTrySend ==
    /\ [][\A p \in Producers :
            ( \/ \E b \in ByteStrings : SendBytes(p, b)
              \/ \E v \in JsonValues : SendJson(p, v)
              \/ \E t \in Topics, v \in JsonValues : SendTopicJson(p, t, v)
              \/ SendResume(p) ) =>
                \/ pc'[p] = "blocked" /\ ret' = ret
                \/ ret'.by = p /\ ret'.res \in {"Ok", "ChannelClosed", "Serialize"}]_vars
    /\ [][\A p \in Producers :
            ( /\ ~rxClosed /\ permits = 0
              /\ \/ \E b \in ByteStrings : SendBytes(p, b)
                 \/ SendJson(p, [t |-> "uint", v |-> 7])
                 \/ \E t \in Topics : SendTopicJson(p, t, [t |-> "uint", v |-> 7]) ) =>
                (pc'[p] = "blocked" /\ queue' = queue /\ ret' = ret)]_vars
    /\ [][(ret' # ret /\ ret'.res = "QueueFull") =>
            /\ permits = 0 /\ ~rxClosed /\ ~ret'.waited
            /\ pc' = pc /\ pending' = pending /\ waiters' = waiters /\ queue' = queue]_vars

\* C16 witness: the buffer is at capacity, one producer is suspended in
\* send_topic_json and the other has been refused by try_send_bytes.
C16_Witness ==
    \E p \in Producers :
        /\ pc[p] = "blocked"
        /\ pending[p].kind = "Multipart"
        /\ Len(queue) = opts.queue_capacity
        /\ ret.res = "QueueFull" /\ ret.by # p

\* C17: across all producers, the k-th socket send call carries the k-th
\* envelope the channel accepted: the buffer holds the accepted envelopes
\* not yet dequeued in acceptance order, the newest at the back, and the
\* worker takes them from the front one at a time.
C17_GlobalFifo ==
    /\ wpc = "sending" => inflight.env.seq = sentN
    /\ wpc = "dequeued" => cur.seq = sentN + 1
    /\ \A i \in DOMAIN queue : queue[i].seq = accN - Len(queue) + i
    /\ accN - Len(queue) = sentN + (IF wpc = "dequeued" THEN 1 ELSE 0)

\* C17 witness: the producers' calls were accepted in the order p1, p2, p1,
\* p2; the third envelope is in its send call and the fourth is queued.
C17_Witness ==
    /\ wpc = "sending"
    /\ inflight.env.seq = 3 /\ inflight.env.src = "p1" /\ inflight.env.pn = 2
    /\ sentFrom["p2"] = 1
    /\ Len(queue) = 1 /\ queue[1].src = "p2" /\ queue[1].seq = 4

\* The JSON decoder (serde_json::from_slice) on the texts that occur: a
\* decimal number without a leading zero is that unsigned integer, the text
\* null is the null value, anything else is an error.
RECURSIVE DigitsValue(_)
DigitsValue(bs) ==
    IF bs = << >> THEN 0
    ELSE 10 * DigitsValue(SubSeq(bs, 1, Len(bs) - 1)) + (bs[Len(bs)] - 48)

JsonDecode(bs) ==
    IF bs = << 110, 117, 108, 108 >> THEN [t |-> "null", v |-> 0]
    ELSE IF /\ bs # << >>
            /\ \A i \in DOMAIN bs : bs[i] \in 48..57
            /\ (Len(bs) = 1 \/ bs[1] # 48)
         THEN [t |-> "uint", v |-> DigitsValue(bs)]
         ELSE [t |-> "error", v |-> 0]

\* The envelope a step of producer p has handed to the channel: the one its
\* suspended call carries, or the one appended at the back of the buffer.
HandedOver(p) == IF pc'[p] = "blocked" THEN pending'[p] ELSE queue'[Len(queue')]

\* The worker passes the envelope it received, unchanged, to the send call,
\* and a resumed call appends the envelope it carried.
CarriedUnchanged ==
    /\ [][(wpc = "recv" /\ wpc' = "dequeued") => cur' = Head(queue)]_vars
    /\ [][(wpc = "dequeued" /\ wpc' = "sending") => inflight'.env = cur]_vars
    /\ [][\A p \in Producers :
            (pc[p] = "granted" /\ pc'[p] = "idle") =>
                /\ queue'[Len(queue')].kind = pending[p].kind
                /\ queue'[Len(queue')].frames = pending[p].frames]_vars

\* C14 as stated: for every serializable value v, the single frame enqueued
\* for send_json(v), which the worker transmits unchanged, decodes to v.
C14_RoundTripEveryValue ==
    [][\A v \in RoundTripValues :
         (SendJson("p1", v) /\ ret'.res # "ChannelClosed") =>
             /\ HandedOver("p1").kind = "Bytes"
             /\ Len(HandedOver("p1").frames) = 1
             /\ JsonDecode(HandedOver("p1").frames[1]) = v]_vars

\* C14 amended: for every unsigned integer v (more generally every value
\* whose JSON text represents it exactly, which excludes non-finite floats:
\* those are written as null), the single frame enqueued for send_json(v)
\* decodes to v, and the worker transmits the frame it dequeued unchanged, as
\* one frame.
C14_RoundTripIntegers ==
    /\ [][\A v \in RoundTripValues :
            (SendJson("p1", v) /\ ret'.res # "ChannelClosed" /\ v.t = "uint") =>
                /\ HandedOver("p1").kind = "Bytes"
                /\ Len(HandedOver("p1").frames) = 1
                /\ JsonDecode(HandedOver("p1").frames[1]) = v]_vars
    /\ CarriedUnchanged
    /\ [](wpc = "sending" =>
            /\ inflight.env.kind = "Bytes"
            /\ Len(inflight.env.frames) = 1
            /\ JsonDecode(inflight.env.frames[1]).t \in {"uint", "null"})

\* C14 witness: the frame in the send call is the two-digit text 10, queued
\* by a call that was suspended first.
C14_Witness ==
    /\ wpc = "sending"
    /\ inflight.env.frames = << << 49, 48 >> >>
    /\ JsonDecode(inflight.env.frames[1]) = [t |-> "uint", v |-> 10]
    /\ ret = Res("p1", "Ok", TRUE)
    /\ sentN = accN

\* C18: pub_default(endpoint) is the options value with that endpoint, kind
\* Pub, queue_capacity 10000, sndhwm 100000, linger_ms 0, immediate true and
\* warmup_ms 300; push_default(endpoint) is the same with kind Push and
\* warmup_ms 50.
C18_PresetDefaults ==
    /\ built.via = "pub_default" =>
            built.value = [endpoint |-> built.arg, kind |-> "Pub", queue_capacity |-> 10000,
                           sndhwm |-> 100000, linger_ms |-> 0, immediate |-> TRUE,
                           warmup_ms |-> 300]
    /\ built.via = "push_default" =>
            built.value = [endpoint |-> built.arg, kind |-> "Push", queue_capacity |-> 10000,
                           sndhwm |-> 100000, linger_ms |-> 0, immediate |-> TRUE,
                           warmup_ms |-> 50]

\* C18 witness: push_default has been called with the second endpoint.
C18_Witness ==
    /\ built.via = "push_default"
    /\ built.arg = "ipc:///tmp/events"
    /\ built.value.endpoint = "ipc:///tmp/events"

\* The middleware has served the request, and the wrapped service answered
\* it with a response.
Served == exchange.outcome \notin {"none", "call"}
InnerResponded == Served /\ exchange.forwarded /\ exchange.inner = "response"

\* The Location header is the configured URL (an absolute URL without a path
\* gets the path /) with its query extended, and its query has a next pair.
LocationPointsToAuth ==
    LET base == Before(Before(exchange.location, "#"), "?")
        auth == Before(Before(exchange.auth_service_url, "#"), "?")
    IN  /\ base \in { auth, auth \o << "/" >> }
        /\ After(exchange.location, "#") = After(exchange.auth_service_url, "#")
LocationHasNext == HasNext(After(Before(exchange.location, "#"), "?"))

\* The configured URL is one the url crate parses, or a relative reference.
AuthUrlUsable ==
    \/ /\ exchange.auth_service_url # << >>
       /\ exchange.auth_service_url[1] \notin {"http", "https"}
    \/ /\ Len(exchange.auth_service_url) >= 5
       /\ exchange.auth_service_url[5] \notin {"/", "?", "#"}
       /\ ~Contains(Before(SubSeq(exchange.auth_service_url, 5, Len(exchange.auth_service_url)), "/"), " ")

\* C19 as stated: whenever the wrapped service responds with 401 the client
\* receives 303 with a Location that points to the configured auth service
\* URL and has a next parameter; a response with any other status passes
\* through with its status.
C19_UnauthorizedAlwaysRedirected ==
    InnerResponded =>
        IF exchange.inner_status = 401
        THEN /\ exchange.outcome = "response"
             /\ exchange.status = 303
             /\ LocationPointsToAuth
             /\ LocationHasNext
        ELSE /\ exchange.outcome = "response"
             /\ exchange.status = exchange.inner_status

\* C19 amended: when the wrapped service responds with 401 and the
\* configured auth service URL is an absolute URL or a relative reference,
\* the client receives 303 with a Location that points to that URL and has a
\* next parameter; when the configured URL is neither (it does not parse),
\* the request fails with 500 Internal Server Error instead; a response with
\* any other status passes through with its status.
C19_RedirectsWhenAuthUrlUsable ==
    InnerResponded =>
        IF exchange.inner_status = 401
        THEN IF AuthUrlUsable
             THEN /\ exchange.outcome = "response"
                  /\ exchange.status = 303
                  /\ LocationPointsToAuth
                  /\ LocationHasNext
             ELSE /\ exchange.outcome = "error"
                  /\ exchange.status = 500
                  /\ exchange.location = << >>
        ELSE /\ exchange.outcome = "response"
             /\ exchange.status = exchange.inner_status
             /\ exchange.location = << >>

\* C19 witness: a 401 for a request that carries its own next parameter has
\* been turned into a 303 to the relative sign-in URL, fragment kept.
C19_Witness ==
    /\ InnerResponded
    /\ exchange.inner_status = 401
    /\ exchange.status = 303
    /\ exchange.auth_service_url = << "/", "auth", "/", "signin", "#", "step2" >>
    /\ exchange.location =
           << "/", "auth", "/", "signin", "?", "next", "=", "https", "%3A", "%2F", "%2F",
              "example.com", "%2F", "target", "%3F", "a", "%3D", "1", "%26", "b", "%3D", "2",
              "#", "step2" >>

\* The page numbers of a page list.
Shown == { paginated.pages[i].v : i \in { j \in DOMAIN paginated.pages : paginated.pages[j].some } }

\* C20 as stated: for every total_pages >= 1 and every current_page,
\* Paginated::new returns a page list that contains the first min(2,
\* total_pages) pages, the last min(2, total_pages) pages, and the pages of
\* the window around the current page (2 before it to 4 after it) that exist.
C20_EdgesAndWindowAlwaysShown ==
    (paginated.outcome \in {"ok", "panic"} /\ paginated.total_pages >= 1) =>
        LET total == paginated.total_pages
            current == IF paginated.current_page = 0 THEN 1 ELSE paginated.current_page
            edge == Min(2, total)
        IN  /\ paginated.outcome = "ok"
            /\ \A k \in 1..edge : k \in Shown
            /\ \A k \in (total - edge + 1)..total : k \in Shown
            /\ \A k \in Max(1, current - 2)..Min(total, current + 4) : k \in Shown

\* C21: the worker is stopped only with every handle dropped, the buffer
\* empty and nothing in its hands; it enters that state from its receive, in
\* a state where no handle is left and the buffer is empty; while a handle is
\* alive the channel is open; and the drop of a handle that is not the last
\* one closes nothing: the buffer, the worker and the receiver stay as they
\* are and the receive cannot return None.
C21_StoppedOnlyWhenDroppedAndDrained ==
    /\ [](wpc = "stopped" =>
            /\ Started /\ holders = {} /\ queue = << >>
            /\ cur = NoEnv /\ inflight = NoCall /\ sentN = accN)
    /\ []((holders # {} \/ queue # << >>) => wpc # "stopped")
    /\ [](holders # {} => ~rxClosed /\ sock = "open")
    /\ [][(wpc # "stopped" /\ wpc' = "stopped") =>
            (wpc = "recv" /\ holders = {} /\ queue = << >> /\ holders' = {} /\ queue' = << >>)]_vars
    /\ [][\A p \in Producers :
            (Drop(p) /\ holders' # {}) =>
                /\ rxClosed' = rxClosed /\ queue' = queue /\ wpc' = wpc
                /\ permits' = permits /\ waiters' = waiters
                /\ ~RecvNone']_vars

\* C21 witness: the worker has stopped after both producers held a handle
\* and enqueued, so one of the two drops was not the last one.
C21_Witness ==
    /\ wpc = "stopped"
    /\ \A p \in Producers : accFrom[p] >= 1
    /\ sentN = accN

\* The worker's lifecycle state: Starting from the spawn to the end of the
\* warm-up sleep, Running in the loop (receive, send call, backoff), Stopped
\* once the loop has ended; None while no thread exists.
Lifecycle(w) ==
    CASE w \in {"spawned", "warmup"} -> "Starting"
      [] w \in {"recv", "dequeued", "sending", "backoff"} -> "Running"
      [] w = "stopped" -> "Stopped"
      [] OTHER -> "None"
LifecycleRank(l) ==
    CASE l = "None" -> 0 [] l = "Starting" -> 1 [] l = "Running" -> 2 [] l = "Stopped" -> 3

\* C22: the worker's lifecycle only moves forward: a step that changes it
\* goes from Starting to Running or from Running to Stopped (the thread
\* itself begins in Starting), so Running never returns to Starting; a
\* stopped worker stays stopped, enters no send call and holds no envelope,
\* its socket is closed; and every send call is entered in Running.
C22_LifecycleForwardOnly ==
    /\ [][Lifecycle(wpc') # Lifecycle(wpc) =>
            << Lifecycle(wpc), Lifecycle(wpc') >> \in
                { << "None", "Starting" >>, << "Starting", "Running" >>,
                  << "Running", "Stopped" >> }]_vars
    /\ [][LifecycleRank(Lifecycle(wpc')) >= LifecycleRank(Lifecycle(wpc))]_vars
    /\ [][wpc = "stopped" =>
            (wpc' = "stopped" /\ sentN' = sentN /\ inflight' = inflight
             /\ sock' = sock /\ cur' = cur /\ queue' = queue)]_vars
    /\ [](wpc = "stopped" => inflight = NoCall /\ cur = NoEnv /\ sock = "closed")
    /\ [][sentN' # sentN => (Lifecycle(wpc) = "Running" /\ Lifecycle(wpc') = "Running")]_vars

\* C22 witness: a worker that slept its warm-up and then sent, the last send
\* failing and followed by a backoff, has stopped.
C22_Witness ==
    /\ Lifecycle(wpc) = "Stopped"
    /\ opts.warmup_ms > 0
    /\ sentN >= 2
    /\ failedLast

\* C23: until the warm-up sleep has ended the worker receives nothing and
\* enters no send call: a thread started with a positive warmup_ms goes
\* through the sleep before its first receive, and only a thread in its loop
\* dequeues or sends; during the warm-up every accepted envelope stays in the
\* buffer, in acceptance order; afterwards the k-th send call carries the k-th
\* accepted envelope; and an envelope accepted during the warm-up does get
\* its send call once the sleep is over.
C23_NoSendBeforeWarmup ==
    /\ [](Lifecycle(wpc) \in {"None", "Starting"} =>
            /\ sentN = 0 /\ inflight = NoCall /\ cur = NoEnv
            /\ Len(queue) = accN
            /\ \A i \in DOMAIN queue : queue[i].seq = i)
    /\ [][(wpc = "spawned" /\ wpc' # wpc) =>
            wpc' = (IF opts.warmup_ms > 0 THEN "warmup" ELSE "recv")]_vars
    /\ [][(wpc = "warmup" /\ wpc' # wpc) => (wpc' = "recv" /\ queue' = queue)]_vars
    /\ [][(sentN' # sentN \/ cur' # cur \/ Len(queue') < Len(queue)) =>
            Lifecycle(wpc) = "Running"]_vars
    /\ [](wpc = "sending" => inflight.env.seq = sentN)
    /\ (Lifecycle(wpc) = "Starting" /\ queue # << >>) ~> (sentN >= 1)

\* C23 witness: during the warm-up sleep two envelopes, of the second and
\* then the first producer, have been accepted and wait in the buffer.
C23_Witness ==
    /\ wpc = "warmup"
    /\ sentN = 0
    /\ accN = 2 /\ Len(queue) = 2
    /\ queue[1].src = "p2" /\ queue[2].src = "p1"

\* C24: an envelope the worker has dequeued is the next thing it passes to
\* the socket: the only step out of the dequeued position enters the send
\* call with that envelope; a drop of a handle, the last one included,
\* changes neither the worker's position nor the envelope it holds nor a send
\* call in progress; and with every handle dropped a dequeued envelope still
\* gets its send call.
C24_DequeuedIsSentDespiteDrops ==
    /\ [](wpc = "dequeued" => cur # NoEnv /\ cur.seq = sentN + 1)
    /\ [][(wpc = "dequeued" /\ wpc' # wpc) =>
            (wpc' = "sending" /\ inflight'.env = cur /\ sentN' = sentN + 1)]_vars
    /\ [][wpc = "dequeued" => (cur' = cur \/ wpc' = "sending")]_vars
    /\ [][\A p \in Producers :
            Drop(p) => (wpc' = wpc /\ cur' = cur /\ inflight' = inflight /\ sentN' = sentN
                        /\ queue' = queue)]_vars
    /\ (wpc = "dequeued" /\ holders = {}) ~> (wpc = "sending" /\ holders = {})

\* C24 witness: on a channel of capacity 1 the worker holds the first
\* envelope, the second was accepted after that dequeue (its call had been
\* suspended), and every handle has been dropped since; the send call has not
\* been entered yet.
C24_Witness ==
    /\ wpc = "dequeued"
    /\ holders = {}
    /\ opts.queue_capacity = 1
    /\ cur.seq = 1
    /\ accN = 2 /\ Len(queue) = 1
    /\ ret.waited

\* C25: the return of a send call decides the backoff: on Err the worker
\* enters one sleep of 50 ms, on Ok it is back at the receive without
\* sleeping; the backoff is entered from nowhere else, always lasts 50 ms, and
\* ends at the receive, so between a failed send and the next send call there
\* is exactly one backoff and k failed sends give k backoffs of the same
\* length; and the backoff does end.
C25_OneBackoffPerFailure ==
    /\ [][(wpc = "sending" /\ wpc' # wpc) =>
            IF failedLast'
            THEN wpc' = "backoff" /\ sleeping' = 50
            ELSE wpc' = "recv" /\ sleeping' = 0]_vars
    /\ [][(wpc # "backoff" /\ wpc' = "backoff") => (wpc = "sending" /\ failedLast')]_vars
    /\ [][(wpc = "backoff" /\ wpc' # wpc) => (wpc' = "recv" /\ sleeping' = 0 /\ failedLast')]_vars
    /\ [][(wpc = "recv" /\ wpc' # wpc) => wpc' \in {"dequeued", "stopped"}]_vars
    /\ [](wpc = "backoff" => (sleeping = 50 /\ failedLast /\ inflight = NoCall))
    /\ [](wpc \in {"recv", "dequeued", "sending", "stopped"} => sleeping = 0)
    /\ [][sentN' # sentN => (wpc = "dequeued" /\ sleeping = 0)]_vars
    /\ (wpc = "backoff") ~> (wpc = "recv" \/ wpc = "dequeued" \/ wpc = "stopped")

\* C25 witness: the worker is in the 50 ms sleep after a failed send, the
\* third send call of the run, with another envelope waiting.
C25_Witness ==
    /\ wpc = "backoff"
    /\ sleeping = 50
    /\ failedLast
    /\ sentN = 3
    /\ queue # << >>

\* C26: the envelopes accepted and not yet dequeued are exactly the ones in
\* the buffer, and they never number more than queue_capacity, whoever
\* enqueued them and by which call; the free slots are never negative, and
\* buffer, free slots and slots held by woken calls add up to the capacity.
C26_QueueNeverExceedsCapacity ==
    /\ Len(queue) = accN - sentN - (IF wpc = "dequeued" THEN 1 ELSE 0)
    /\ Started =>
        /\ Len(queue) <= opts.queue_capacity
        /\ permits \in 0..opts.queue_capacity
        /\ Len(queue) + Cardinality(Granted) + permits = opts.queue_capacity
    /\ ~Started => queue = << >>

\* C26 witness: a buffer of capacity 2 holds two envelopes, one of each
\* producer, while a third is in its send call and a try_send_bytes has just
\* been refused.
C26_Witness ==
    /\ opts.queue_capacity = 2
    /\ Len(queue) = 2
    /\ queue[1].src # queue[2].src
    /\ wpc = "sending"
    /\ ret.res = "QueueFull"

\* A step of an enqueue operation of producer p: one of the four calls, or
\* the completion of a suspended one.
Enqueue(p) ==
    \/ \E b \in ByteStrings : SendBytes(p, b) \/ TrySendBytes(p, b)
    \/ \E v \in JsonValues : SendJson(p, v)
    \/ \E t \in Topics, v \in JsonValues : SendTopicJson(p, t, v)
    \/ SendResume(p)

\* The worker is blocked in a socket send call or in its backoff sleep.
WorkerBusy == wpc \in {"sending", "backoff"}

\* C27: a step of an enqueue operation leaves the socket, the worker's
\* position, the envelope the worker holds, the send call in progress, the
\* worker's sleep, the handles and the options as they are; the envelopes
\* already in the buffer stay, in place, and at most one is appended behind
\* them; and the worker being in a send call or in its backoff delays no
\* producer: a producer that holds a handle can make its call then, and with
\* a free slot the call is accepted in that very step.
C27_EnqueueTouchesOnlyQueue ==
    /\ [][\A p \in Producers :
            Enqueue(p) =>
                /\ sock' = sock /\ wpc' = wpc /\ cur' = cur /\ inflight' = inflight
                /\ sentN' = sentN /\ sentFrom' = sentFrom /\ failedLast' = failedLast
                /\ sleeping' = sleeping /\ rxClosed' = rxClosed
                /\ holders' = holders /\ opts' = opts /\ workers' = workers
                /\ Len(queue') \in { Len(queue), Len(queue) + 1 }
                /\ SubSeq(queue', 1, Len(queue)) = queue]_vars
    /\ [][\A p \in Producers, b \in ByteStrings :
            ((SendBytes(p, b) \/ TrySendBytes(p, b)) /\ WorkerBusy /\ permits > 0) =>
                /\ ret' = Res(p, "Ok", FALSE)
                /\ queue' = Append(queue, Tagged(EnvBytes(b), p))]_vars
    /\ [](\A p \in Producers, b \in ByteStrings :
            (WorkerBusy /\ p \in holders /\ pc[p] = "idle" /\ accN + 2 <= MaxEnvelopes) =>
                (ENABLED SendBytes(p, b) /\ ENABLED TrySendBytes(p, b)))

\* C27 witness: the worker is in the send call of the first envelope and the
\* buffer of capacity 2 is full again behind it, the third envelope having
\* been accepted after the first was dequeued.
C27_Witness ==
    /\ wpc = "sending"
    /\ opts.queue_capacity = 2
    /\ sentN = 1 /\ accN = 3
    /\ Len(queue) = 2
    /\ permits = 0

\* The envelopes the channel or the worker holds.
EnvelopesInChannel == ({ queue[i] : i \in DOMAIN queue } \cup { cur, inflight.env }) \ { NoEnv }

\* C28: a try_send_bytes that does not return Ok returns QueueFull or
\* ChannelClosed and leaves the buffer exactly as it was (same envelopes,
\* same order), as well as the free slots, the suspended calls and the
\* worker; nothing of the call is kept: every envelope in the buffer, in the
\* worker's hands or in a send call is an accepted one, only a suspended
\* send carries an envelope not yet accepted, and the send calls never
\* outnumber the accepted envelopes, so the rejected bytes are never sent.
C28_RejectedTrySendLeavesQueue ==
    /\ [][\A p \in Producers, b \in ByteStrings :
            (TrySendBytes(p, b) /\ ret'.res # "Ok") =>
                /\ ret'.by = p /\ ret'.res \in {"QueueFull", "ChannelClosed"}
                /\ queue' = queue /\ permits' = permits /\ waiters' = waiters
                /\ pc' = pc /\ pending' = pending
                /\ accN' = accN /\ accFrom' = accFrom
                /\ cur' = cur /\ inflight' = inflight /\ sentN' = sentN]_vars
    /\ [](\A e \in EnvelopesInChannel : e.seq \in 1..accN /\ e.src \in Producers)
    /\ [](\A p \in Producers : pending[p] # NoEnv => pc[p] \in {"blocked", "granted"})
    /\ [](sentN <= accN /\ \A p \in Producers : sentFrom[p] <= accFrom[p])
    /\ [][(ret' # ret /\ ret'.res \in {"QueueFull", "ChannelClosed"}) => accN' = accN]_vars

\* C28 witness: a try_send_bytes was refused with QueueFull, it was the last
\* call made, and the worker has since sent every accepted envelope and
\* stopped: the refused bytes were not sent.
C28_Witness ==
    /\ ret.res = "QueueFull"
    /\ wpc = "stopped"
    /\ sentN = accN
    /\ accN >= 2

\* C29: the result of start depends on socket creation and connect alone:
\* whichever of the three option set calls fail, start returns Ok when both
\* succeed, with the socket open and connected, one worker thread spawned,
\* the channel open with queue_capacity free slots and a handle with the
\* caller; with a failed option the worker starts, dequeues and sends as
\* usual; and start returns nothing but Ok, SocketCreate or Connect.
C29_OptionErrorsIgnored ==
    /\ [][\A o \in OptionSet, c \in BOOLEAN, k \in BOOLEAN, f \in SUBSET SocketOptions :
            Start(o, c, k, f) =>
                /\ startResult' = (IF ~c THEN "SocketCreate" ELSE IF ~k THEN "Connect" ELSE "Ok")
                /\ (c /\ k) =>
                      /\ sock' = "open" /\ workers' = 1 /\ wpc' = "spawned"
                      /\ holders' = {"p1"} /\ ~rxClosed' /\ permits' = o.queue_capacity
                      /\ optErrors' = f]_vars
    /\ [](startResult \in {"none", "Ok", "SocketCreate", "Connect"})
    /\ []((Started /\ optErrors # {}) =>
            /\ workers = 1
            /\ (sock = "open" <=> wpc # "stopped")
            /\ (wpc = "sending" => inflight.env.seq = sentN)
            /\ Len(queue) + Cardinality(Granted) + permits = opts.queue_capacity)
    /\ [][(wpc = "spawned" /\ wpc' # wpc) => wpc' \in {"warmup", "recv"}]_vars

\* C29 witness: all three option set calls failed in start, start returned
\* Ok, and the worker it spawned is in the send call of an envelope enqueued
\* through the handle.
C29_Witness ==
    /\ startResult = "Ok"
    /\ optErrors = SocketOptions
    /\ workers = 1
    /\ wpc = "sending"
    /\ inflight.env.src = "p1"

\* A page list is well formed for total pages: its numbers lie in 1..total
\* and increase strictly (so none is listed twice), and every None stands
\* between two numbers that are not consecutive.
WellFormedPages(pages, total) ==
    /\ \A i \in DOMAIN pages : pages[i].some => pages[i].v \in 1..total
    /\ \A i \in DOMAIN pages, j \in DOMAIN pages :
          (i < j /\ pages[i].some /\ pages[j].some) => pages[i].v < pages[j].v
    /\ \A i \in DOMAIN pages :
          ~pages[i].some =>
              /\ i > 1 /\ i < Len(pages)
              /\ pages[i - 1].some /\ pages[i + 1].some
              /\ pages[i + 1].v > pages[i - 1].v + 1

\* C30 as stated: whatever its arguments, the page list get_pages returns
\* (to a direct caller, and to Paginated::new) is well formed: numbers within
\* 1..=total_pages, strictly increasing, none twice, and a None only between
\* two numbers that are not consecutive.
C30_PageListWellFormed ==
    /\ listed.outcome = "ok" => WellFormedPages(listed.pages, listed.total_pages)
    /\ paginated.outcome = "ok" => WellFormedPages(paginated.pages, paginated.total_pages)

====
